---------------------------- MODULE Spec2Model ----------------------------
(***************************************************************************)
(* A model of puffotter's utilities: the byte-unit converter (units.py),   *)
(* the directory lister (os.py), the api decorator (flask/routes/          *)
(* decorators.py), application bootstrap and API-key lookup                *)
(* (flask/initialize.py) and the background task runner (flask/wsgi.py).   *)
(*                                                                         *)
(* Python values are modelled as follows.  A str is a sequence of          *)
(* one-character strings.  A non-negative int is a sequence of base-10^4   *)
(* limbs (Python ints are unbounded, and                                   *)
(* the values of units.py exceed 2^31), see below.  A                      *)
(* float is a record [m, e] standing for m * 2^e with m < 2^53 (or 2^53    *)
(* itself after a round-up), and every float operation rounds to nearest,  *)
(* ties to even, as IEEE 754 binary64 does.                                *)
(***************************************************************************)
EXTENDS Integers, Sequences, FiniteSets, TLC

VARIABLES
    \* units.byte_string_to_byte_count: the argument and the outcome
    parse_input, parse_outcome,
    \* units.human_readable_bytes: the arguments and the outcome
    fmt_bytecount, fmt_base_1024, fmt_trim, fmt_outcome,
    \* os.listdir: the directory (its path and what the operating system
    \* lists, in its order), the flags and the outcome
    ld_path, ld_entries, ld_no_files, ld_no_dirs, ld_no_dot, ld_outcome,
    \* initialize.__init_app: the module's CREATED_BLUEPRINTS, and per name the
    \* calls of its generator, its registrations with the app and the
    \* "already created" log lines; the init_flask calls made so far and
    \* whether the last one raised
    CREATED_BLUEPRINTS, generator_calls, registered, skipped, init_calls,
    init_outcome,
    \* decorators.api: the request, the wrapped handler, the outcome of the
    \* wrapper and the number of calls of the handler
    api_request, api_func, api_outcome, api_calls,
    \* initialize.load_user_from_request: the stored API keys, the headers of
    \* the last request (its Authorization value, None without one) and the
    \* outcome of its lookup; the records deleted through db.session
    api_keys, auth_headers, auth_outcome, deleted_keys,
    \* wsgi.__start_background_tasks: the task definitions, and per task the
    \* state of its thread, the invocations of its function, the lines of the
    \* error log that name it and the seconds slept in the current sleep
    task_definitions, thread_pc, invocations, error_log, slept

unitsParseVars  == <<parse_input, parse_outcome>>
unitsFormatVars == <<fmt_bytecount, fmt_base_1024, fmt_trim, fmt_outcome>>

listdirVars == <<ld_path, ld_entries, ld_no_files, ld_no_dirs, ld_no_dot,
                 ld_outcome>>
blueprintVars == <<CREATED_BLUEPRINTS, generator_calls, registered, skipped,
                   init_calls, init_outcome>>

apiVars == <<api_request, api_func, api_outcome, api_calls>>

authVars == <<api_keys, auth_headers, auth_outcome, deleted_keys>>

taskVars == <<task_definitions, thread_pc, invocations, error_log, slept>>

vars == <<unitsParseVars, unitsFormatVars, listdirVars, blueprintVars,
          apiVars, authVars, taskVars>>

\* the outcome of a call that has not run yet
Pending == [kind |-> "pending"]

----------------------------------------------------------------------------
(* Sequences and strings *)

\* the characters of a string literal
Chars(str) == [i \in 1..Len(str) |-> SubSeq(str, i, i)]

Front(s) == SubSeq(s, 1, Len(s) - 1)

Last(s) == s[Len(s)]

Min(a, b) == IF a <= b THEN a ELSE b

RECURSIVE Zeros(_)
Zeros(n) == IF n = 0 THEN <<>> ELSE <<0>> \o Zeros(n - 1)

----------------------------------------------------------------------------
(* Unbounded non-negative integers: big-endian sequences of limbs in       *)
(* 0..9999 (base 10^4) without leading zero limbs; zero is <<>>.  TLC      *)
(* passes arguments unevaluated, so each recursive operator tests its      *)
(* argument (d = <<>>, x < 0) before it recurses: the test evaluates the   *)
(* argument there and keeps the nesting of pending evaluations shallow.    *)

LimbBase == 10000

RECURSIVE BigNorm(_)
BigNorm(d) == IF d # <<>> /\ d[1] = 0 THEN BigNorm(Tail(d)) ELSE d

\* a machine integer as a bignum
RECURSIVE NatLimbs(_)
NatLimbs(n) ==
    IF n = 0 THEN <<>> ELSE Append(NatLimbs(n \div LimbBase), n % LimbBase)

RECURSIVE BigMulC(_, _, _)
BigMulC(d, k, c) ==
    IF d = <<>> THEN NatLimbs(c)
    ELSE LET x == Last(d) * k + c
         IN  IF x < 0 THEN <<>>
             ELSE Append(BigMulC(Front(d), k, x \div LimbBase), x % LimbBase)

\* d * k for a bignum d and a machine integer 0 <= k <= 2^16
BigMul(d, k) == BigNorm(BigMulC(d, k, 0))

RECURSIVE BigAddSmall(_, _)
BigAddSmall(d, c) ==
    IF c = 0 THEN d
    ELSE IF d = <<>> THEN NatLimbs(c)
    ELSE LET x == Last(d) + c
         IN  IF x < 0 THEN <<>>
             ELSE Append(BigAddSmall(Front(d), x \div LimbBase), x % LimbBase)

RECURSIVE BigDivStep(_, _)
BigDivStep(d, k) ==
    IF d = <<>> THEN [q |-> <<>>, r |-> 0]
    ELSE LET p == BigDivStep(Front(d), k)
             x == p.r * LimbBase + Last(d)
         IN  [q |-> Append(p.q, x \div k), r |-> x % k]

\* quotient and remainder of a bignum d by a machine integer 1 <= k <= 2^17
BigDivMod(d, k) ==
    LET p == BigDivStep(d, k) IN [q |-> BigNorm(p.q), r |-> p.r]

RECURSIVE BigLexLess(_, _)
BigLexLess(a, b) ==
    IF a = <<>> THEN FALSE
    ELSE IF a[1] # b[1] THEN a[1] < b[1]
    ELSE BigLexLess(Tail(a), Tail(b))

\* a < b for normalised bignums
BigLess(a, b) ==
    IF Len(a) # Len(b) THEN Len(a) < Len(b) ELSE BigLexLess(a, b)

BigIsOdd(d) == d # <<>> /\ Last(d) % 2 = 1

RECURSIVE Pow2(_)
Pow2(c) == IF c = 0 THEN 1 ELSE 2 * Pow2(c - 1)

RECURSIVE SmallPow10(_)
SmallPow10(k) == IF k = 0 THEN 1 ELSE 10 * SmallPow10(k - 1)

RECURSIVE SmallBitLen(_)
SmallBitLen(n) == IF n = 0 THEN 0 ELSE 1 + SmallBitLen(n \div 2)

\* the number of binary digits of a bignum
RECURSIVE BigBitLen(_)
BigBitLen(d) ==
    IF Len(d) >= 2 THEN 13 + BigBitLen(BigDivMod(d, 8192).q)
    ELSE IF d = <<>> THEN 0 ELSE SmallBitLen(d[1])

\* d * 2^k
RECURSIVE BigShiftLeft(_, _)
BigShiftLeft(d, k) ==
    IF k = 0 \/ d = <<>> THEN d
    ELSE LET c == Min(k, 15) IN BigShiftLeft(BigMul(d, Pow2(c)), k - c)

\* d * 10^k
BigMulPow10(d, k) ==
    IF d = <<>> THEN <<>>
    ELSE BigMul(d, SmallPow10(k % 4)) \o Zeros(k \div 4)

\* floor(d / 2^k), and whether a non-zero bit was shifted out
RECURSIVE BigFloorShift(_, _)
BigFloorShift(d, k) ==
    IF k = 0 \/ d = <<>> THEN [q |-> d, sticky |-> FALSE]
    ELSE LET c    == Min(k, 15)
             p    == BigDivMod(d, Pow2(c))
             rest == BigFloorShift(p.q, k - c)
         IN  [q |-> rest.q, sticky |-> rest.sticky \/ p.r # 0]

\* d / 2^k rounded to the nearest integer, ties to the even one
BigShiftRound(d, k) ==
    IF k = 0 THEN d
    ELSE LET fs == BigFloorShift(d, k - 1)
             h  == BigDivMod(fs.q, 2)
             up == h.r = 1 /\ (fs.sticky \/ BigIsOdd(h.q))
         IN  IF up THEN BigAddSmall(h.q, 1) ELSE h.q

\* the decimal digits (0..9, most significant first) of a bignum, no
\* leading zeros
BigDigits(d) ==
    LET all == [i \in 1..(4 * Len(d)) |->
                   (d[((i - 1) \div 4) + 1] \div SmallPow10(3 - ((i - 1) % 4))) % 10]
    IN  BigNorm(all)

\* the bignum of a sequence of decimal digits
DigitsBig(ds) ==
    LET n     == Len(ds)
        limbs == (n + 3) \div 4
        digit(j) == IF j >= 1 THEN ds[j] ELSE 0
        limb(i)  == LET hi == n - 4 * (limbs - i) - 3
                    IN  digit(hi) * 1000 + digit(hi + 1) * 100
                        + digit(hi + 2) * 10 + digit(hi + 3)
    IN  BigNorm([i \in 1..limbs |-> limb(i)])

----------------------------------------------------------------------------
(* IEEE 754 binary64 *)

MantissaBits == 53

\* the float nearest to n * 2^e, for a bignum n
FloatRound(n, e) ==
    LET bits == BigBitLen(n)
        k    == IF bits > MantissaBits THEN bits - MantissaBits ELSE 0
    IN  [m |-> BigShiftRound(n, k), e |-> e + k]

\* the float nearest to (n * 2^e) / k, for a machine integer 1 <= k <= 2^17
FloatDivSmall(n, e, k) ==
    IF n = <<>> THEN [m |-> <<>>, e |-> 0]
    ELSE LET s == 56 + SmallBitLen(k)
             p == BigDivMod(BigShiftLeft(n, s), k)
             \* a non-zero remainder is kept as a bit below the rounding position
             q == BigAddSmall(BigMul(p.q, 2), IF p.r # 0 THEN 1 ELSE 0)
         IN  FloatRound(q, e - s - 1)

\* int(f): truncation
FloatToInt(f) ==
    IF f.e >= 0 THEN BigShiftLeft(f.m, f.e) ELSE BigFloorShift(f.m, 0 - f.e).q

----------------------------------------------------------------------------
(* Python str *)

UpperCase == <<"A","B","C","D","E","F","G","H","I","J","K","L","M",
               "N","O","P","Q","R","S","T","U","V","W","X","Y","Z">>

LowerCase == <<"a","b","c","d","e","f","g","h","i","j","k","l","m",
               "n","o","p","q","r","s","t","u","v","w","x","y","z">>

DigitChars == <<"0","1","2","3","4","5","6","7","8","9">>

\* str.lower() on one character
LowerChar(c) ==
    IF \E i \in 1..26 : UpperCase[i] = c
    THEN LowerCase[CHOOSE i \in 1..26 : UpperCase[i] = c]
    ELSE c

\* str.lower()
StrLower(s) == [i \in 1..Len(s) |-> LowerChar(s[i])]

\* str.isdigit() on one character (ASCII)
IsDigit(c) == \E i \in 1..10 : DigitChars[i] = c

DigitVal(c) == (CHOOSE i \in 1..10 : DigitChars[i] = c) - 1

AllDigits(s) == \A i \in 1..Len(s) : IsDigit(s[i])

\* str.replace(old, new): every non-overlapping occurrence, leftmost first
RECURSIVE StrReplace(_, _, _)
StrReplace(s, old, new) ==
    IF Len(s) < Len(old) THEN s
    ELSE IF SubSeq(s, 1, Len(old)) = old
         THEN new \o StrReplace(SubSeq(s, Len(old) + 1, Len(s)), old, new)
         ELSE <<s[1]>> \o StrReplace(Tail(s), old, new)

\* str.find(c) for one character: the first index (from 0), or -1
StrFind(s, c) ==
    IF \E i \in 1..Len(s) : s[i] = c
    THEN (CHOOSE i \in 1..Len(s) : s[i] = c /\ \A j \in 1..(i - 1) : s[j] # c) - 1
    ELSE -1

\* the number a string of digit characters denotes, as a bignum
StrDigits(s) == DigitsBig([i \in 1..Len(s) |-> DigitVal(s[i])])

\* int(s) for a string without sign, blanks or underscores
ParseInt(s) ==
    IF s # <<>> /\ AllDigits(s)
    THEN [kind |-> "return", value |-> StrDigits(s)]
    ELSE [kind |-> "raise", error |-> "ValueError"]

\* the number a short string of digit characters denotes
RECURSIVE StrSmallVal(_)
StrSmallVal(s) ==
    IF s = <<>> THEN 0 ELSE StrSmallVal(Front(s)) * 10 + DigitVal(Last(s))

MaxFloatBits == 1024

\* float(s) for a string without sign, blanks or underscores:
\* [digits][.[digits]][e digits], "inf", "infinity" or "nan"
ParseFloat(s) ==
    IF s \in {Chars("inf"), Chars("infinity")}
    THEN [kind |-> "inf"]
    ELSE IF s = Chars("nan") THEN [kind |-> "nan"]
    ELSE
    LET epos  == StrFind(s, "e")
        mant  == IF epos = -1 THEN s ELSE SubSeq(s, 1, epos)
        expo  == IF epos = -1 THEN <<>> ELSE SubSeq(s, epos + 2, Len(s))
        dpos  == StrFind(mant, ".")
        ipart == IF dpos = -1 THEN mant ELSE SubSeq(mant, 1, dpos)
        fpart == IF dpos = -1 THEN <<>> ELSE SubSeq(mant, dpos + 2, Len(mant))
        ok    == /\ AllDigits(ipart) /\ AllDigits(fpart)
                 /\ Len(ipart) + Len(fpart) >= 1
                 /\ epos # -1 => (expo # <<>> /\ AllDigits(expo))
        n     == StrDigits(ipart \o fpart)
        x     == StrSmallVal(expo) - Len(fpart)
        whole == BigMulPow10(n, x)
    IN  IF ~ok THEN [kind |-> "error"]
        ELSE IF x >= 0
             THEN IF BigBitLen(whole) > MaxFloatBits THEN [kind |-> "inf"]
                  ELSE [kind |-> "finite", f |-> FloatRound(whole, 0)]
             ELSE [kind |-> "finite", f |-> FloatDivSmall(n, 0, SmallPow10(0 - x))]

----------------------------------------------------------------------------
(* units.py: byte_string_to_byte_count *)

\* the keys of the units dict, in insertion order
UnitKeys == <<"k", "m", "g", "t", "p", "e">>

IsUnitKey(c) == \E i \in 1..Len(UnitKeys) : UnitKeys[i] = c

\* units[c] is 1000^UnitPower(c)
UnitPower(c) == CHOOSE i \in 1..Len(UnitKeys) : UnitKeys[i] = c

RECURSIVE BigMulPow1000(_, _)
BigMulPow1000(d, i) ==
    IF i = 0 \/ d = <<>> THEN d ELSE BigMulPow1000(BigMul(d, 1000), i - 1)

\* the loop of lines 42-44, over the units from index i on
RECURSIVE StripUnitSuffixes(_, _)
StripUnitSuffixes(s, i) ==
    IF i > Len(UnitKeys) THEN s
    ELSE LET unit == UnitKeys[i]
             s1   == StrReplace(s, <<unit>> \o Chars("b/s"), <<unit>>)
             s2   == StrReplace(s1, <<unit>> \o Chars("b"), <<unit>>)
         IN  StripUnitSuffixes(s2, i + 1)

\* float * units[c], then int(): lines 53-54
ScaleToInt(pf, c) ==
    CASE pf.kind = "error" -> [kind |-> "raise", error |-> "ValueError"]
      [] pf.kind = "inf"   -> [kind |-> "raise", error |-> "OverflowError"]
      [] pf.kind = "nan"   -> [kind |-> "raise", error |-> "ValueError"]
      [] OTHER ->
           LET prod == FloatRound(BigMulPow1000(pf.f.m, UnitPower(c)), pf.f.e)
           IN  [kind |-> "return", value |-> FloatToInt(prod)]

byte_string_to_byte_count(byte_string) ==
    LET s == StripUnitSuffixes(StrLower(byte_string), 1)
    IN  IF s = <<>> THEN [kind |-> "raise", error |-> "IndexError"]
        ELSE LET multiplier_char == Last(s)
             IN  IF IsDigit(multiplier_char)
                 THEN IF StrFind(s, ".") # -1
                      THEN [kind |-> "raise", error |-> "ValueError"]
                      ELSE ParseInt(s)
                 ELSE IF ~IsUnitKey(multiplier_char)
                      THEN [kind |-> "raise", error |-> "ValueError"]
                      ELSE ScaleToInt(ParseFloat(Front(s)), multiplier_char)

----------------------------------------------------------------------------
(* units.py: human_readable_bytes *)

\* the units list of line 71
UnitNames == <<"K", "M", "G", "T", "P", "E", "Z", "Y">>

Base(base_1024) == IF base_1024 THEN 1024 ELSE 1000

\* the loop of lines 76-81: divide, count, stop below the base or at the
\* last unit; unit_index counts from 0 as in the code
RECURSIVE DivideLoop(_, _, _)
DivideLoop(_bytes, unit_index, base) ==
    LET next_bytes == FloatDivSmall(_bytes.m, _bytes.e, base)
        next_index == unit_index + 1
    IN  IF \/ BigLess(FloatToInt(next_bytes), NatLimbs(base))
           \/ next_index = Len(UnitNames) - 1
        THEN [_bytes |-> next_bytes, unit_index |-> next_index]
        ELSE DivideLoop(next_bytes, next_index, base)

\* the decimal digits of a bignum as characters, at least n of them
DigitString(d, n) ==
    LET digits == BigDigits(d)
        padded == IF Len(digits) < n THEN Zeros(n - Len(digits)) \o digits
                  ELSE digits
    IN  [i \in 1..Len(padded) |-> DigitChars[padded[i] + 1]]

\* "%.3f" % f: the exact value rounded to thousandths, ties to even
FormatFixed3(f) ==
    LET scaled == BigMul(f.m, 1000)
        thousandths == IF f.e >= 0 THEN BigShiftLeft(scaled, f.e)
                       ELSE BigShiftRound(scaled, 0 - f.e)
        digits == DigitString(thousandths, 4)
        n == Len(digits)
    IN  SubSeq(digits, 1, n - 3) \o <<".">> \o SubSeq(digits, n - 2, n)

\* the loop of lines 87-90: drop the zeros at the end
RECURSIVE StripTrailingZeros(_)
StripTrailingZeros(s) ==
    IF s # <<>> /\ Last(s) = "0" THEN StripTrailingZeros(Front(s)) ELSE s

\* a variant that leaves a dangling decimal point (drops lines 92-93)
RemoveTrailingZeroes_KeepPoint(bytestring) == StripTrailingZeros(bytestring)

\* lines 86-93
RemoveTrailingZeroes(bytestring) ==
    LET stripped == StripTrailingZeros(bytestring)
    IN  IF stripped # <<>> /\ Last(stripped) = "." THEN Front(stripped)
        ELSE stripped

human_readable_bytes(bytecount, base_1024, remove_trailing_zeroes) ==
    LET base       == Base(base_1024)
        loop       == DivideLoop(FloatRound(bytecount, 0), -1, base)
        bytestring == FormatFixed3(loop._bytes)
        trimmed    == IF remove_trailing_zeroes
                      THEN RemoveTrailingZeroes(bytestring)
                      ELSE bytestring
        i          == IF base_1024 THEN <<"i">> ELSE <<>>
    IN  trimmed \o <<UnitNames[loop.unit_index + 1]>> \o i \o <<"B">>

----------------------------------------------------------------------------
(* Calls of byte_string_to_byte_count *)

\* bounds of the byte strings tried
MaxIntDigits == 4

DigitAlphabet == {"0", "1", "2", "3", "6"}

RECURSIVE StringsUpTo(_, _)
StringsUpTo(alphabet, n) ==
    IF n = 0 THEN {<<>>}
    ELSE LET shorter == StringsUpTo(alphabet, n - 1)
         IN  shorter \cup {Append(s, c) : s \in shorter, c \in alphabet}

\* an integer part, then nothing, a point, or a point and a digit
NumberParts ==
    {i \o f : i \in StringsUpTo(DigitAlphabet, MaxIntDigits),
              f \in {<<>>, <<".">>, <<".", "5">>}}

UnitLetters == {"k", "m", "g", "t", "p", "e", "K", "M", "G", "T", "P", "E"}

\* a unit letter alone, with "b" or "B", or with "b/s"
UnitSuffixes ==
    {<<u>> \o t : u \in UnitLetters,
                  t \in {<<>>, Chars("b"), Chars("B"), Chars("b/s")}}

OtherSuffixes ==
    {<<>>} \cup {Chars(t) : t \in {"b", "c", "abc", "kk", "kbb", "infk", "nank",
                                    "e1k"}}

ByteStrings == {n \o t : n \in NumberParts, t \in UnitSuffixes \cup OtherSuffixes}

UnitsParseInit ==
    /\ parse_input \in ByteStrings
    /\ parse_outcome = Pending

UnitsParseIdle ==
    /\ parse_input = <<>>
    /\ parse_outcome = Pending

\* one call byte_string_to_byte_count(parse_input)
ParseCall ==
    /\ parse_outcome = Pending
    /\ parse_outcome' = byte_string_to_byte_count(parse_input)
    /\ UNCHANGED parse_input

----------------------------------------------------------------------------
(* Calls of human_readable_bytes *)

\* bounds of the byte counts tried: c * 1000^i + d and c * 1024^i + d
MaxCoefficient == 3
MaxUnitExponent == 3
MaxOffset == 1

RECURSIVE BigMulPow(_, _, _)
BigMulPow(d, k, i) ==
    IF i = 0 \/ d = <<>> THEN d ELSE BigMulPow(BigMul(d, k), k, i - 1)

ByteCounts ==
    {BigAddSmall(BigMulPow(NatLimbs(c), b, i), d) :
        c \in 0..MaxCoefficient, b \in {999, 1000, 1024},
        i \in 0..MaxUnitExponent, d \in 0..MaxOffset}

UnitsFormatInit ==
    /\ fmt_bytecount \in ByteCounts
    /\ fmt_base_1024 \in BOOLEAN
    /\ fmt_trim \in BOOLEAN
    /\ fmt_outcome = Pending

UnitsFormatIdle ==
    /\ fmt_bytecount = <<>>
    /\ fmt_base_1024 = FALSE
    /\ fmt_trim = TRUE
    /\ fmt_outcome = Pending

\* one call human_readable_bytes(fmt_bytecount, fmt_base_1024, fmt_trim)
FormatCall ==
    /\ fmt_outcome = Pending
    /\ fmt_outcome' = [kind |-> "return",
                    value |-> human_readable_bytes(fmt_bytecount, fmt_base_1024,
                                                   fmt_trim)]
    /\ UNCHANGED <<fmt_bytecount, fmt_base_1024, fmt_trim>>

----------------------------------------------------------------------------
(* os.py: listdir *)

\* the characters of the names tried, by ascending code point
CharOrder == Chars(".Bab")

CharRank(c) == CHOOSE i \in 1..Len(CharOrder) : CharOrder[i] = c

\* a < b as Python compares str: by code point, a proper prefix first
RECURSIVE StrLess(_, _)
StrLess(a, b) ==
    IF b = <<>> THEN FALSE
    ELSE IF a = <<>> THEN TRUE
    ELSE IF a[1] # b[1] THEN CharRank(a[1]) < CharRank(b[1])
    ELSE StrLess(Tail(a), Tail(b))

RECURSIVE SortedInsert(_, _)
SortedInsert(sorted, x) ==
    IF sorted = <<>> THEN <<x>>
    ELSE IF StrLess(x, sorted[1]) THEN <<x>> \o sorted
    ELSE <<sorted[1]>> \o SortedInsert(Tail(sorted), x)

\* a variant that keeps the order os.listdir gave (drops sorted() of line 44)
Sorted_ListingOrder(names) == names

\* sorted(names)
RECURSIVE Sorted(_)
Sorted(names) ==
    IF names = <<>> THEN <<>>
    ELSE SortedInsert(Sorted(Front(names)), Last(names))

\* os.path.join(path, child) on POSIX
PathJoin(path, child) ==
    IF child # <<>> /\ child[1] = "/" THEN child
    ELSE IF path = <<>> \/ Last(path) = "/" THEN path \o child
    ELSE path \o <<"/">> \o child

\* os.listdir(path): the names, in the order of the directory
OsListdir(entries) == [i \in 1..Len(entries) |-> entries[i].name]

\* what child_path is, in the directory path with these entries
KindOfPath(path, entries, child_path) ==
    IF \E i \in 1..Len(entries) : PathJoin(path, entries[i].name) = child_path
    THEN entries[CHOOSE i \in 1..Len(entries) :
                    PathJoin(path, entries[i].name) = child_path].kind
    ELSE "missing"

\* os.path.isfile and os.path.isdir
IsFile(path, entries, child_path) == KindOfPath(path, entries, child_path) = "file"

IsDir(path, entries, child_path) == KindOfPath(path, entries, child_path) = "dir"

\* the loop of lines 44-54 over the children left
RECURSIVE ListdirLoop(_, _, _, _, _, _)
ListdirLoop(children, path, entries, no_files, no_dirs, no_dot) ==
    IF children = <<>> THEN <<>>
    ELSE LET child      == children[1]
             child_path == PathJoin(path, child)
             rest       == ListdirLoop(Tail(children), path, entries,
                                       no_files, no_dirs, no_dot)
         IN  IF no_files /\ IsFile(path, entries, child_path) THEN rest
             ELSE IF no_dirs /\ IsDir(path, entries, child_path) THEN rest
             ELSE IF no_dot /\ child[1] = "." THEN rest
             ELSE <<<<child, child_path>>>> \o rest

listdir(path, entries, no_files, no_dirs, no_dot) ==
    ListdirLoop(Sorted(OsListdir(entries)), path, entries,
                no_files, no_dirs, no_dot)

\* bound of the directories tried
MaxChildren == 2

ChildNames == {Chars(n) : n \in {".a", ".b", "B", "a", "ab"}}

\* a regular file, a directory, or neither (a FIFO, a dangling link)
ChildKinds == {"file", "dir", "other"}

DirPaths == {Chars("d"), Chars("d/")}

\* what os.listdir may give: distinct names, in any order
DirListings ==
    UNION {{e \in [1..n -> [name : ChildNames, kind : ChildKinds]] :
               \A i, j \in 1..n : i # j => e[i].name # e[j].name}
           : n \in 0..MaxChildren}

ListdirInit ==
    /\ ld_path \in DirPaths
    /\ ld_entries \in DirListings
    /\ ld_no_files \in BOOLEAN
    /\ ld_no_dirs \in BOOLEAN
    /\ ld_no_dot \in BOOLEAN
    /\ ld_outcome = Pending

ListdirIdle ==
    /\ ld_path = <<>>
    /\ ld_entries = <<>>
    /\ ld_no_files = FALSE
    /\ ld_no_dirs = FALSE
    /\ ld_no_dot = TRUE
    /\ ld_outcome = Pending

\* one call listdir(ld_path, no_files, no_dirs, no_dot)
ListdirCall ==
    /\ ld_outcome = Pending
    /\ ld_outcome' = [kind |-> "return",
                      value |-> listdir(ld_path, ld_entries, ld_no_files,
                                        ld_no_dirs, ld_no_dot)]
    /\ UNCHANGED <<ld_path, ld_entries, ld_no_files, ld_no_dirs, ld_no_dot>>

----------------------------------------------------------------------------
(* flask/initialize.py: blueprint registration in __init_app *)

Range(f) == {f[i] : i \in DOMAIN f}

BlueprintNames == {"static", "user_management", "blog"}

\* the names of puffotter.flask.routes.blueprint_generators
default_blueprint_generators == <<"static", "user_management">>

\* a variant that registers without looking at CREATED_BLUEPRINTS (drops the
\* test of line 133)
AlreadyCreated_Never(blueprint_name, created) == FALSE

\* line 133
AlreadyCreated(blueprint_name, created) == blueprint_name \in Range(created)

\* the loop of lines 132-140 over the generators left; the generators of the
\* names in broken raise, and so end the loop and the call
RECURSIVE RegisterBlueprints(_, _, _)
RegisterBlueprints(st, blueprint_generators, broken) ==
    IF blueprint_generators = <<>> THEN st
    ELSE LET blueprint_name == blueprint_generators[1]
             rest == Tail(blueprint_generators)
         IN  IF AlreadyCreated(blueprint_name, st.created)
             THEN RegisterBlueprints(
                      [st EXCEPT !.skipped[blueprint_name] = @ + 1],
                      rest, broken)
             ELSE LET appended ==
                          [st EXCEPT !.created = Append(@, blueprint_name),
                                     !.generator_calls[blueprint_name] = @ + 1]
                  IN  IF blueprint_name \in broken
                      THEN [appended EXCEPT !.outcome = "raise"]
                      ELSE RegisterBlueprints(
                               [appended EXCEPT !.registered[blueprint_name] = @ + 1],
                               rest, broken)

\* bounds of the bootstrap calls tried
MaxInitCalls == 3
MaxGenerators == 2

GeneratorLists ==
    UNION {[1..n -> BlueprintNames] : n \in 0..MaxGenerators}

BlueprintInit ==
    /\ CREATED_BLUEPRINTS = <<>>
    /\ generator_calls = [n \in BlueprintNames |-> 0]
    /\ registered = [n \in BlueprintNames |-> 0]
    /\ skipped = [n \in BlueprintNames |-> 0]
    /\ init_calls = 0
    /\ init_outcome = "none"

\* one call init_flask(..., blueprint_generators), as far as blueprints go
InitFlask(blueprint_generators, broken) ==
    /\ init_calls < MaxInitCalls
    /\ LET st == RegisterBlueprints(
                     [created |-> CREATED_BLUEPRINTS,
                      generator_calls |-> generator_calls,
                      registered |-> registered,
                      skipped |-> skipped,
                      outcome |-> "return"],
                     default_blueprint_generators \o blueprint_generators,
                     broken)
       IN  /\ CREATED_BLUEPRINTS' = st.created
           /\ generator_calls' = st.generator_calls
           /\ registered' = st.registered
           /\ skipped' = st.skipped
           /\ init_outcome' = st.outcome
    /\ init_calls' = init_calls + 1

BlueprintNext ==
    \E blueprint_generators \in GeneratorLists, broken \in SUBSET BlueprintNames :
        InitFlask(blueprint_generators, broken)

----------------------------------------------------------------------------
(* Python exceptions: the classes that occur in the library and its        *)
(* callers, each with its base class                                       *)

ExceptionBase(cls) ==
    CASE cls = "KeyError"           -> "LookupError"
      [] cls = "IndexError"         -> "LookupError"
      [] cls = "UnicodeDecodeError" -> "UnicodeError"
      [] cls = "UnicodeError"       -> "ValueError"
      [] cls = "binascii.Error"     -> "ValueError"
      [] cls = "Unauthorized"       -> "HTTPException"
      [] cls \in {"Exception", "SystemExit", "KeyboardInterrupt"}
                                    -> "BaseException"
      [] cls = "BaseException"      -> "object"
      [] OTHER                      -> "Exception"

\* issubclass(cls, base)
RECURSIVE IsSubclass(_, _)
IsSubclass(cls, base) ==
    IF cls = base THEN TRUE
    ELSE IF cls = "object" THEN FALSE
    ELSE IsSubclass(ExceptionBase(cls), base)

\* an except clause that catches every Exception, whatever classes it names
Catches_EveryException(classes, error) == IsSubclass(error.type, "Exception")

\* whether an except clause naming the classes catches the error
Catches(classes, error) == \E base \in classes : IsSubclass(error.type, base)

\* puffotter.flask.exceptions.ApiException(reason, status_code)
ApiException(reason, status_code) ==
    [type |-> "ApiException", reason |-> reason, status_code |-> status_code]

----------------------------------------------------------------------------
(* flask/routes/decorators.py: the api decorator.  A request is a record   *)
(* of its method, its Content-Type (None without the header) and its body  *)
(* text; the wrapped handler is what it does when called: it returns a     *)
(* value or raises an error.                                               *)

PyNone == [type |-> "NoneType"]

PyStr(s) == [type |-> "str", value |-> s]

\* str.startswith
StartsWith(s, prefix) ==
    Len(s) >= Len(prefix) /\ SubSeq(s, 1, Len(prefix)) = prefix

\* str.endswith
EndsWith(s, suffix) ==
    Len(s) >= Len(suffix)
    /\ SubSeq(s, Len(s) - Len(suffix) + 1, Len(s)) = suffix

\* str.strip() of spaces
RECURSIVE Strip(_)
Strip(s) ==
    IF s # <<>> /\ s[1] = " " THEN Strip(Tail(s))
    ELSE IF s # <<>> /\ Last(s) = " " THEN Strip(Front(s))
    ELSE s

\* request.mimetype: the content type without its parameters, lower case
Mimetype(content_type) ==
    LET semi == StrFind(content_type, ";")
        head == IF semi < 0 THEN content_type
                ELSE SubSeq(content_type, 1, semi)
    IN  StrLower(Strip(head))

\* request.is_json: whether the mimetype indicates JSON
RequestIsJson(content_type) ==
    LET mt == Mimetype(content_type)
    IN  \/ mt = Chars("application/json")
        \/ StartsWith(mt, Chars("application/")) /\ EndsWith(mt, Chars("+json"))

\* the type of json.loads(data), or "error" where the text is not JSON
JsonLoadsType(data) ==
    CASE data = "{}"      -> "dict"
      [] data = "{\"a\": 1}" -> "dict"
      [] data = "[]"      -> "list"
      [] data = "1"       -> "int"
      [] data = "null"    -> "NoneType"
      [] OTHER            -> "error"

\* the type of request.get_json(silent=True) of a request that is_json
GetJsonSilentType(request) ==
    IF JsonLoadsType(request.data) = "error" THEN "NoneType"
    ELSE JsonLoadsType(request.data)

\* whether flask.jsonify can serialise a value of this type
JsonSerialisable(value) == value.type \in {"dict", "list", "str", "int", "NoneType"}

\* the try block of wrapper: what it raised or the data it stored, and the
\* number of calls of the handler
ApiTryBlock(request, func) ==
    IF request.content_type.type # "str"
    THEN [raised |-> TRUE, error |-> [type |-> "AttributeError"], calls |-> 0]
    ELSE LET is_json ==
                 /\ StartsWith(request.content_type.value,
                               Chars("application/json"))
                 /\ RequestIsJson(request.content_type.value)
                 /\ GetJsonSilentType(request) = "dict"
         IN  IF request.method \in {"POST", "PUT", "DELETE"} /\ ~is_json
             THEN [raised |-> TRUE,
                   error  |-> ApiException("Not in JSON format", 400),
                   calls  |-> 0]
             ELSE IF func.kind = "raise"
             THEN [raised |-> TRUE, error |-> func.error, calls |-> 1]
             ELSE [raised |-> FALSE, data |-> func.value, calls |-> 1]

\* the classes of the except clause of wrapper
ApiCaught == {"KeyError", "TypeError", "ValueError", "ApiException"}

\* make_response(jsonify(response), code)
MakeJsonResponse(response, code) ==
    IF "data" \in DOMAIN response /\ ~JsonSerialisable(response.data)
    THEN [kind |-> "raise", error |-> [type |-> "TypeError"]]
    ELSE [kind |-> "response", status_code |-> code, json |-> response]

\* wrapper(*args, **kwargs) of api(func): the outcome and the number of
\* calls of func
api(request, func) ==
    LET t == ApiTryBlock(request, func)
    IN  IF ~t.raised
        THEN [outcome |-> MakeJsonResponse([status |-> "ok", data |-> t.data],
                                           200),
              calls   |-> t.calls]
        ELSE IF ~Catches(ApiCaught, t.error)
        THEN [outcome |-> [kind |-> "raise", error |-> t.error],
              calls   |-> t.calls]
        ELSE IF IsSubclass(t.error.type, "ApiException")
        THEN [outcome |-> MakeJsonResponse(
                              [status |-> "error", reason |-> t.error.reason],
                              t.error.status_code),
              calls   |-> t.calls]
        ELSE [outcome |-> MakeJsonResponse(
                              [status |-> "error",
                               reason |-> "Bad Request: " \o t.error.type],
                              400),
              calls   |-> t.calls]

(* Requests and handlers *)

Methods == {"GET", "POST", "PUT", "DELETE", "PATCH"}

ContentTypes ==
    {PyNone} \cup
    {PyStr(Chars(s)) : s \in {"", "text/plain", "application/json",
                              "application/json; charset=utf-8",
                              "application/jsonl", "application/ld+json",
                              "Application/JSON"}}

Bodies == {"", "{}", "{\"a\": 1}", "[]", "1", "{"}

Requests == [method : Methods, content_type : ContentTypes, data : Bodies]

HandlerValues == {[type |-> "dict"], [type |-> "str"], [type |-> "set"]}

HandlerErrors ==
    {[type |-> c] : c \in {"KeyError", "TypeError", "ValueError",
                           "UnicodeDecodeError", "IndexError", "LookupError",
                           "RuntimeError", "Unauthorized"}}
    \cup {ApiException("Not found", 404), ApiException("Unauthorized", 401),
          ApiException("Server error", 500)}

Handlers ==
    {[kind |-> "return", value |-> v] : v \in HandlerValues}
    \cup {[kind |-> "raise", error |-> e] : e \in HandlerErrors}

\* a request to a route decorated with api has arrived
ApiInit ==
    /\ api_request \in Requests
    /\ api_func \in Handlers
    /\ api_outcome = Pending
    /\ api_calls = 0

ApiIdle ==
    /\ api_request = [method |-> "GET", content_type |-> PyNone, data |-> ""]
    /\ api_func = [kind |-> "return", value |-> [type |-> "dict"]]
    /\ api_outcome = Pending
    /\ api_calls = 0

\* the wrapper handles the request
ApiCall ==
    /\ api_outcome = Pending
    /\ api_outcome' = api(api_request, api_func).outcome
    /\ api_calls' = api(api_request, api_func).calls
    /\ UNCHANGED <<api_request, api_func>>

----------------------------------------------------------------------------
(* flask/initialize.py: load_user_from_request.  The Authorization header  *)
(* is a str (a sequence of characters); bytes are sequences of 0..255, and *)
(* the decoded key is a sequence of code points.                           *)

Base64Alphabet ==
    Chars("ABCDEFGHIJKLMNOPQRSTUVWXYZabcdefghijklmnopqrstuvwxyz0123456789+/")

\* the six bits a character stands for, or 64 outside the alphabet
Base64Value(c) ==
    IF \E i \in 1..64 : Base64Alphabet[i] = c
    THEN (CHOOSE i \in 1..64 : Base64Alphabet[i] = c) - 1
    ELSE 64

\* binascii.a2b_base64 (not strict): characters outside the alphabet are
\* skipped, a completed run of "=" ends the input, and data characters left
\* over at the end of the input are a binascii.Error
RECURSIVE A2bBase64(_, _, _, _, _)
A2bBase64(s, quad_pos, leftchar, pads, out) ==
    IF s = <<>>
    THEN IF quad_pos # 0
         THEN [kind |-> "raise", error |-> [type |-> "binascii.Error"]]
         ELSE [kind |-> "return", value |-> out]
    ELSE IF s[1] = "="
    THEN IF quad_pos >= 2 /\ quad_pos + pads + 1 >= 4
         THEN [kind |-> "return", value |-> out]
         ELSE A2bBase64(Tail(s), quad_pos, leftchar,
                        IF quad_pos >= 2 THEN pads + 1 ELSE pads, out)
    ELSE LET this_ch == Base64Value(s[1])
         IN  IF this_ch >= 64
             THEN A2bBase64(Tail(s), quad_pos, leftchar, pads, out)
             ELSE CASE quad_pos = 0 ->
                         A2bBase64(Tail(s), 1, this_ch, 0, out)
                    [] quad_pos = 1 ->
                         A2bBase64(Tail(s), 2, this_ch % 16, 0,
                                   Append(out, leftchar * 4 + (this_ch \div 16)))
                    [] quad_pos = 2 ->
                         A2bBase64(Tail(s), 3, this_ch % 4, 0,
                                   Append(out, leftchar * 16 + (this_ch \div 4)))
                    [] quad_pos = 3 ->
                         A2bBase64(Tail(s), 0, 0, 0,
                                   Append(out, leftchar * 64 + this_ch))

\* base64.b64decode(s)
B64Decode(s) == A2bBase64(s, 0, 0, 0, <<>>)

IsContinuation(b, i) == i <= Len(b) /\ b[i] \in 128..191

\* the number of bytes of the UTF-8 sequence that starts at b[i], or 0 where
\* no valid sequence starts there
Utf8SeqLen(b, i) ==
    LET c == b[i]
        second(lo, hi) == i + 1 <= Len(b) /\ b[i + 1] \in lo..hi
    IN  IF c < 128 THEN 1
        ELSE IF c \in 194..223
        THEN IF IsContinuation(b, i + 1) THEN 2 ELSE 0
        ELSE IF c \in 224..239
        THEN IF /\ second(IF c = 224 THEN 160 ELSE 128,
                           IF c = 237 THEN 159 ELSE 191)
                /\ IsContinuation(b, i + 2)
             THEN 3 ELSE 0
        ELSE IF c \in 240..244
        THEN IF /\ second(IF c = 240 THEN 144 ELSE 128,
                           IF c = 244 THEN 143 ELSE 191)
                /\ IsContinuation(b, i + 2) /\ IsContinuation(b, i + 3)
             THEN 4 ELSE 0
        ELSE 0

\* the code point of the valid UTF-8 sequence of n bytes at b[i]
Utf8CodePoint(b, i, n) ==
    CASE n = 1 -> b[i]
      [] n = 2 -> (b[i] % 32) * 64 + (b[i + 1] % 64)
      [] n = 3 -> (b[i] % 16) * 4096 + (b[i + 1] % 64) * 64
                  + (b[i + 2] % 64)
      [] n = 4 -> (b[i] % 8) * 262144 + (b[i + 1] % 64) * 4096
                  + (b[i + 2] % 64) * 64 + (b[i + 3] % 64)

\* bytes.decode("utf-8") from b[i] on
RECURSIVE Utf8Decode(_, _, _)
Utf8Decode(b, i, out) ==
    IF i > Len(b) THEN [kind |-> "return", value |-> out]
    ELSE LET n == Utf8SeqLen(b, i)
         IN  IF n = 0
             THEN [kind |-> "raise", error |-> [type |-> "UnicodeDecodeError"]]
             ELSE Utf8Decode(b, i + n, Append(out, Utf8CodePoint(b, i, n)))

\* ord(c) of an ASCII digit, colon or letter
Ord(c) ==
    LET index(seq) == CHOOSE i \in 1..Len(seq) : seq[i] = c
    IN  CASE \E i \in 1..11 : Chars("0123456789:")[i] = c ->
                 47 + index(Chars("0123456789:"))
          [] \E i \in 1..26 : UpperCase[i] = c -> 64 + index(UpperCase)
          [] \E i \in 1..26 : LowerCase[i] = c -> 96 + index(LowerCase)

\* the code points of a string literal of such characters
CodePoints(str) == [i \in 1..Len(str) |-> Ord(SubSeq(str, i, i))]

\* str.replace("Basic ", "", 1): the first occurrence only
RECURSIVE ReplaceFirst(_, _, _)
ReplaceFirst(s, old, new) ==
    IF Len(s) < Len(old) THEN s
    ELSE IF SubSeq(s, 1, Len(old)) = old
         THEN new \o SubSeq(s, Len(old) + 1, Len(s))
         ELSE <<s[1]>> \o ReplaceFirst(Tail(s), old, new)

\* api_key.split(":", 1)
SplitOnce(s, sep) ==
    IF \E i \in 1..Len(s) : s[i] = sep
    THEN LET i == CHOOSE k \in 1..Len(s) :
                      s[k] = sep /\ \A j \in 1..(k - 1) : s[j] # sep
         IN  <<SubSeq(s, 1, i - 1), SubSeq(s, i + 1, Len(s))>>
    ELSE <<s>>

(* The stored API keys and users belong to the ORM layer: an ApiKey is a   *)
(* record of its id, its secret (stored as a hash, which verification      *)
(* compares with the presented secret), whether it has expired and its     *)
(* user's id.                                                              *)

\* ApiKey.query.get(key_id): the stored key with this id, or None
ApiKeyQueryGet(keys, key_id) ==
    IF \E k \in keys : CodePoints(k.id) = key_id
    THEN CHOOSE k \in keys : CodePoints(k.id) = key_id
    ELSE PyNone

\* ApiKey.verify_key(api_key): the presented "id:secret" names this key and
\* carries its secret
verify_key(db_api_key, api_key) ==
    LET parts == SplitOnce(api_key, Ord(":"))
    IN  /\ Len(parts) = 2
        /\ parts[1] = CodePoints(db_api_key.id)
        /\ parts[2] = CodePoints(db_api_key.secret)

\* ApiKey.has_expired()
has_expired(db_api_key) == db_api_key.expired

\* User.query.get(user_id)
UserQueryGet(user_id) == [type |-> "User", id |-> user_id]

\* the try block of load_user_from_request: the decoded key, or the error
DecodeApiKey(authorization) ==
    LET api_key == ReplaceFirst(authorization, Chars("Basic "), <<>>)
        decoded == B64Decode(api_key)
    IN  IF decoded.kind = "raise" THEN decoded
        ELSE Utf8Decode(decoded.value, 1, <<>>)

\* the classes of the except clause of load_user_from_request
LoadUserCaught == {"TypeError", "binascii.Error"}

\* a lookup that asks for expiry before it verifies the presented key
load_user_from_request_ExpiryFirst(headers, keys) ==
    LET decoded    == IF headers = PyNone THEN [kind |-> "none"]
                      ELSE DecodeApiKey(headers.value)
        db_api_key == IF decoded.kind = "return"
                      THEN ApiKeyQueryGet(keys,
                               SplitOnce(decoded.value, Ord(":"))[1])
                      ELSE PyNone
    IN  IF decoded.kind = "raise" /\ ~Catches(LoadUserCaught, decoded.error)
        THEN [outcome |-> decoded, keys |-> keys]
        ELSE IF db_api_key = PyNone
        THEN [outcome |-> [kind |-> "return", value |-> PyNone], keys |-> keys]
        ELSE IF has_expired(db_api_key)
        THEN [outcome |-> [kind |-> "return", value |-> PyNone],
              keys    |-> keys \ {db_api_key}]
        ELSE IF ~verify_key(db_api_key, decoded.value)
        THEN [outcome |-> [kind |-> "return", value |-> PyNone], keys |-> keys]
        ELSE [outcome |-> [kind  |-> "return",
                           value |-> UserQueryGet(db_api_key.user_id)],
              keys    |-> keys]

\* load_user_from_request(request): the outcome and the stored keys after it
load_user_from_request(headers, keys) ==
    IF headers = PyNone
    THEN [outcome |-> [kind |-> "return", value |-> PyNone], keys |-> keys]
    ELSE LET decoded == DecodeApiKey(headers.value)
         IN  IF decoded.kind = "raise"
             THEN IF Catches(LoadUserCaught, decoded.error)
                  THEN [outcome |-> [kind |-> "return", value |-> PyNone],
                        keys    |-> keys]
                  ELSE [outcome |-> decoded, keys |-> keys]
             ELSE LET api_key    == decoded.value
                      db_api_key == ApiKeyQueryGet(keys,
                                        SplitOnce(api_key, Ord(":"))[1])
                  IN  IF db_api_key = PyNone
                      THEN [outcome |-> [kind |-> "return", value |-> PyNone],
                            keys    |-> keys]
                      ELSE IF ~verify_key(db_api_key, api_key)
                      THEN [outcome |-> [kind |-> "return", value |-> PyNone],
                            keys    |-> keys]
                      ELSE IF has_expired(db_api_key)
                      THEN [outcome |-> [kind |-> "return", value |-> PyNone],
                            keys    |-> keys \ {db_api_key}]
                      ELSE [outcome |-> [kind  |-> "return",
                                         value |-> UserQueryGet(
                                                       db_api_key.user_id)],
                            keys    |-> keys]

(* Requests and stored keys *)

\* the values of the Authorization header: "MTpz" encodes "1:s", "MTp4"
\* "1:x", "Mjpz" "2:s", "OTpz" "9:s", "MQ==" "1", "w6k=" one non-ASCII
\* character and "/w==" the byte 255; "MTp" lacks padding
AuthorizationValues ==
    {Chars(s) : s \in {"Basic MTpz", "Basic MTp4", "Basic Mjpz", "Basic OTpz",
                       "Basic MQ==", "Basic w6k=", "Basic /w==", "Basic MTp",
                       "Basic ", "MTpz", "Basic Basic MTpz", "Basic MT!pz"}}

AuthHeaders == {PyNone} \cup {PyStr(v) : v \in AuthorizationValues}

StoredKeys ==
    [type : {"ApiKey"}, id : {"1", "2"}, secret : {"s"}, expired : BOOLEAN,
     user_id : {7, 8}]

\* the sets of stored keys: no two keys with one id
KeyStores == {ks \in SUBSET StoredKeys : \A a, b \in ks : a.id = b.id => a = b}

AuthInit ==
    /\ api_keys \in KeyStores
    /\ auth_headers = PyNone
    /\ auth_outcome = Pending
    /\ deleted_keys = {}

AuthIdle ==
    /\ api_keys = {}
    /\ auth_headers = PyNone
    /\ auth_outcome = Pending
    /\ deleted_keys = {}

\* the login manager resolves the user of one request
LoadUserFromRequest ==
    \E headers \in AuthHeaders :
        /\ auth_headers' = headers
        /\ auth_outcome' = load_user_from_request(headers, api_keys).outcome
        /\ api_keys' = load_user_from_request(headers, api_keys).keys
        /\ deleted_keys' =
               deleted_keys
               \cup (api_keys \ load_user_from_request(headers, api_keys).keys)

----------------------------------------------------------------------------
(* flask/wsgi.py: __start_background_tasks.  A task definition is its      *)
(* delay and its function; a function is the set of things one invocation  *)
(* of it may do: "return", or the class of the error it raises.  Each      *)
(* task's thread is not yet started ("unstarted"), about to invoke the     *)
(* function ("invoke"), in time.sleep ("sleep") or has ended               *)
(* ("terminated"); counters stop counting at MaxCount.                     *)

TaskNames == {"t1", "t2"}

MaxDelay == 1

MaxCount == 2

Count(n) == IF n < MaxCount THEN n + 1 ELSE n

\* the classes of the except clause of run_task
RunTaskCaught == {"Exception"}

\* time.sleep(secs) raises ValueError for a negative length
SleepRaises(secs) == secs < 0

\* lines 53-58: one thread per task definition is created, then all are
\* started
start_background_tasks ==
    /\ \A t \in TaskNames : thread_pc[t] = "unstarted"
    /\ thread_pc' = [t \in TaskNames |-> "invoke"]
    /\ UNCHANGED <<task_definitions, invocations, error_log, slept>>

\* lines 44-50 of run_task: the function is invoked; an error that the
\* except clause catches is logged with the task's name, any other error
\* ends the thread; then time.sleep(_delay) is called
InvokeFunction(t) ==
    /\ thread_pc[t] = "invoke"
    /\ \E does \in task_definitions[t].function :
          /\ invocations' = [invocations EXCEPT ![t] = Count(@)]
          /\ IF does = "return"
             THEN /\ thread_pc' = [thread_pc EXCEPT ![t] = "sleep"]
                  /\ UNCHANGED error_log
             ELSE IF Catches(RunTaskCaught, [type |-> does])
             THEN /\ thread_pc' = [thread_pc EXCEPT ![t] = "sleep"]
                  /\ error_log' = [error_log EXCEPT ![t] = Count(@)]
             ELSE /\ thread_pc' = [thread_pc EXCEPT ![t] = "terminated"]
                  /\ UNCHANGED error_log
    /\ slept' = [slept EXCEPT ![t] = 0]
    /\ UNCHANGED task_definitions

\* line 50: time.sleep(_delay) refuses a negative delay, outside the try
\* block, and the thread ends
SleepFails(t) ==
    /\ thread_pc[t] = "sleep"
    /\ SleepRaises(task_definitions[t].delay)
    /\ thread_pc' = [thread_pc EXCEPT ![t] = "terminated"]
    /\ UNCHANGED <<task_definitions, invocations, error_log, slept>>

\* line 50: one second of the sleep passes
SleepTick(t) ==
    /\ thread_pc[t] = "sleep"
    /\ slept[t] < task_definitions[t].delay
    /\ slept' = [slept EXCEPT ![t] = @ + 1]
    /\ UNCHANGED <<task_definitions, invocations, error_log, thread_pc>>

\* lines 50 and 43: the sleep is over and the loop starts again
Wake(t) ==
    /\ thread_pc[t] = "sleep"
    /\ ~SleepRaises(task_definitions[t].delay)
    /\ slept[t] >= task_definitions[t].delay
    /\ thread_pc' = [thread_pc EXCEPT ![t] = "invoke"]
    /\ UNCHANGED <<task_definitions, invocations, error_log, slept>>

\* one step of the thread of task t
run_task(t) == InvokeFunction(t) \/ SleepFails(t) \/ SleepTick(t) \/ Wake(t)

Delays == (0 - 1)..MaxDelay

Functions ==
    {{"return"}, {"ValueError"}, {"SystemExit"}, {"return", "ValueError"}}

TaskDefinitions == [TaskNames -> [delay : Delays, function : Functions]]

TasksInit ==
    /\ task_definitions \in TaskDefinitions
    /\ thread_pc = [t \in TaskNames |-> "unstarted"]
    /\ invocations = [t \in TaskNames |-> 0]
    /\ error_log = [t \in TaskNames |-> 0]
    /\ slept = [t \in TaskNames |-> 0]

TasksIdle ==
    /\ task_definitions =
           [t \in TaskNames |-> [delay |-> 0, function |-> {"return"}]]
    /\ thread_pc = [t \in TaskNames |-> "unstarted"]
    /\ invocations = [t \in TaskNames |-> 0]
    /\ error_log = [t \in TaskNames |-> 0]
    /\ slept = [t \in TaskNames |-> 0]

TasksNext == start_background_tasks \/ \E t \in TaskNames : run_task(t)

----------------------------------------------------------------------------
(* Specifications, one for each part of the library; the parts share no    *)
(* state, and each specification leaves the other parts idle               *)

InitParse ==
    /\ UnitsParseInit /\ UnitsFormatIdle /\ ListdirIdle /\ BlueprintInit
    /\ ApiIdle /\ AuthIdle /\ TasksIdle

NextParse ==
    /\ ParseCall
    /\ UNCHANGED <<unitsFormatVars, listdirVars, blueprintVars, apiVars,
                   authVars, taskVars>>

SpecParse == InitParse /\ [][NextParse]_vars

InitFormat ==
    /\ UnitsFormatInit /\ UnitsParseIdle /\ ListdirIdle /\ BlueprintInit
    /\ ApiIdle /\ AuthIdle /\ TasksIdle

NextFormat ==
    /\ FormatCall
    /\ UNCHANGED <<unitsParseVars, listdirVars, blueprintVars, apiVars,
                   authVars, taskVars>>

SpecFormat == InitFormat /\ [][NextFormat]_vars

InitListdir ==
    /\ ListdirInit /\ UnitsParseIdle /\ UnitsFormatIdle /\ BlueprintInit
    /\ ApiIdle /\ AuthIdle /\ TasksIdle

NextListdir ==
    /\ ListdirCall
    /\ UNCHANGED <<unitsParseVars, unitsFormatVars, blueprintVars, apiVars,
                   authVars, taskVars>>

SpecListdir == InitListdir /\ [][NextListdir]_vars

InitInit ==
    /\ BlueprintInit /\ UnitsParseIdle /\ UnitsFormatIdle /\ ListdirIdle
    /\ ApiIdle /\ AuthIdle /\ TasksIdle

NextInit ==
    /\ BlueprintNext
    /\ UNCHANGED <<unitsParseVars, unitsFormatVars, listdirVars, apiVars,
                   authVars, taskVars>>

SpecInit == InitInit /\ [][NextInit]_vars

InitApi ==
    /\ ApiInit /\ UnitsParseIdle /\ UnitsFormatIdle /\ ListdirIdle
    /\ BlueprintInit /\ AuthIdle /\ TasksIdle

NextApi ==
    /\ ApiCall
    /\ UNCHANGED <<unitsParseVars, unitsFormatVars, listdirVars,
                   blueprintVars, authVars, taskVars>>

SpecApi == InitApi /\ [][NextApi]_vars

InitAuth ==
    /\ AuthInit /\ UnitsParseIdle /\ UnitsFormatIdle /\ ListdirIdle
    /\ BlueprintInit /\ ApiIdle /\ TasksIdle

NextAuth ==
    /\ LoadUserFromRequest
    /\ UNCHANGED <<unitsParseVars, unitsFormatVars, listdirVars,
                   blueprintVars, apiVars, taskVars>>

SpecAuth == InitAuth /\ [][NextAuth]_vars

InitTasks ==
    /\ TasksInit /\ UnitsParseIdle /\ UnitsFormatIdle /\ ListdirIdle
    /\ BlueprintInit /\ ApiIdle /\ AuthIdle

NextTasks ==
    /\ TasksNext
    /\ UNCHANGED <<unitsParseVars, unitsFormatVars, listdirVars,
                   blueprintVars, apiVars, authVars>>

\* the threads are scheduled, their functions end and time passes
FairnessTasks ==
    /\ WF_vars(/\ start_background_tasks
               /\ UNCHANGED <<unitsParseVars, unitsFormatVars, listdirVars,
                          blueprintVars, apiVars,
                          authVars>>)
    /\ \A t \in TaskNames :
          WF_vars(/\ run_task(t)
                  /\ UNCHANGED <<unitsParseVars, unitsFormatVars, listdirVars,
                             blueprintVars, apiVars,
                             authVars>>)

SpecTasks == InitTasks /\ [][NextTasks]_vars /\ FairnessTasks

----------------------------------------------------------------------------
(* Claims about byte_string_to_byte_count *)

\* the longest prefix of digit characters of s has this length
RECURSIVE DigitPrefixLen(_)
DigitPrefixLen(s) ==
    IF s # <<>> /\ IsDigit(s[1]) THEN 1 + DigitPrefixLen(Tail(s)) ELSE 0

\* the unit letters in the order of their powers of 1000: k is 1, e is 6
ClaimUnits == <<"k", "m", "g", "t", "p", "e">>

\* s is n+u, n+u+"b" or n+u+"b/s" for digits n and a unit letter u, in
\* upper or lower case
IsIntegralUnitString(s) ==
    LET n    == DigitPrefixLen(s)
        rest == StrLower(SubSeq(s, n + 1, Len(s)))
    IN  /\ n >= 1
        /\ \E i \in 1..6 :
              rest \in {<<ClaimUnits[i]>>, <<ClaimUnits[i]>> \o Chars("b"),
                        <<ClaimUnits[i]>> \o Chars("b/s")}

\* n * 1000^i for such a string
IntegralUnitValue(s) ==
    LET n    == DigitPrefixLen(s)
        rest == StrLower(SubSeq(s, n + 1, Len(s)))
        i    == CHOOSE j \in 1..6 : ClaimUnits[j] = rest[1]
    IN  BigMulPow(StrDigits(SubSeq(s, 1, n)), 1000, i)

\* C6: byte_string_to_byte_count is exact for integral unit multiples: n+u,
\* n+u+"b" and n+u+"b/s" all return n * 1000^i, and "2.5M" returns 2500000.
C6_ExactForIntegralMultiples ==
    parse_outcome # Pending =>
        /\ IsIntegralUnitString(parse_input) =>
              parse_outcome = [kind |-> "return",
                               value |-> IntegralUnitValue(parse_input)]
        /\ parse_input = Chars("2.5M") =>
              parse_outcome = [kind |-> "return", value |-> <<250, 0>>]

\* s is a bare number with a decimal point and no unit suffix
IsBareDecimal(s) ==
    /\ s # <<>>
    /\ \A i \in 1..Len(s) : IsDigit(s[i]) \/ s[i] = "."
    /\ \E i \in 1..Len(s) : s[i] = "."

\* after lowering and suffix stripping, the last character of s is neither a
\* digit nor a unit letter
HasUnrecognisedUnit(s) ==
    LET t == StripUnitSuffixes(StrLower(s), 1)
    IN  t # <<>> /\ ~IsDigit(Last(t)) /\ \A i \in 1..6 : ClaimUnits[i] # Last(t)

\* C7: byte_string_to_byte_count raises ValueError, and no other error, for a
\* bare decimal number, for a string with an unrecognised unit and for the
\* empty string; a bare integer string returns that integer.
C7_InvalidRaisesValueError ==
    parse_outcome # Pending =>
        /\ (IsBareDecimal(parse_input) \/ HasUnrecognisedUnit(parse_input)
              \/ parse_input = <<>>) =>
              parse_outcome = [kind |-> "raise", error |-> "ValueError"]
        /\ (parse_input # <<>> /\ AllDigits(parse_input)) =>
              parse_outcome = [kind |-> "return", value |-> StrDigits(parse_input)]

----------------------------------------------------------------------------
(* Claims about human_readable_bytes *)

Million == <<100, 0>>

Mebi == <<104, 8576>>

\* C8 as stated: with trimming on, 1000000 in base 1000 gives "1M" and
\* 1048576 in base 1024 gives "1MiB".
C8_AsStated ==
    (fmt_outcome # Pending /\ fmt_trim) =>
        /\ (fmt_bytecount = Million /\ ~fmt_base_1024) =>
              fmt_outcome.value = Chars("1M")
        /\ (fmt_bytecount = Mebi /\ fmt_base_1024) =>
              fmt_outcome.value = Chars("1MiB")

\* C8, amended: with trimming on, 1000000 in base 1000 gives "1MB" (the "B"
\* is always appended) and 1048576 in base 1024 gives "1MiB".
C8_TrimmedExamples ==
    (fmt_outcome # Pending /\ fmt_trim) =>
        /\ (fmt_bytecount = Million /\ ~fmt_base_1024) =>
              fmt_outcome.value = Chars("1MB")
        /\ (fmt_bytecount = Mebi /\ fmt_base_1024) =>
              fmt_outcome.value = Chars("1MiB")

\* both examples of C8 have been formatted
C8_Witness ==
    /\ fmt_outcome # Pending /\ fmt_trim
    /\ \/ fmt_bytecount = Million /\ ~fmt_base_1024
       \/ fmt_bytecount = Mebi /\ fmt_base_1024

----------------------------------------------------------------------------
(* Claims about listdir *)

\* a set flag suppresses this entry of the directory
Suppressed(e) ==
    \/ ld_no_files /\ e.kind = "file"
    \/ ld_no_dirs /\ e.kind = "dir"
    \/ ld_no_dot /\ e.name[1] = "."

\* C9: listdir returns, sorted by name, the (name, joined path) pairs of
\* exactly the immediate children that no set flag suppresses, each once: no
\* dot-name with no_dot, no file with no_files, no directory with no_dirs.
C9_ListdirFiltersAndSorts ==
    ld_outcome # Pending =>
        LET content == ld_outcome.value
            kept    == {ld_entries[i].name :
                           i \in {j \in 1..Len(ld_entries) :
                                     ~Suppressed(ld_entries[j])}}
        IN  /\ \A i \in 1..(Len(content) - 1) :
                   StrLess(content[i][1], content[i + 1][1])
            /\ \A i \in 1..Len(content) :
                   content[i][2] = PathJoin(ld_path, content[i][1])
            /\ {content[i][1] : i \in 1..Len(content)} = kept
            /\ Len(content) = Cardinality(kept)

\* a directory listed out of order, holding a dot-name and a kept name, has
\* been listed with a flag set
C9_Witness ==
    /\ ld_outcome # Pending
    /\ Len(ld_entries) = 2
    /\ StrLess(ld_entries[2].name, ld_entries[1].name)
    /\ ld_no_files /\ ~ld_no_dirs /\ ld_no_dot
    /\ Len(ld_outcome.value) = 1

----------------------------------------------------------------------------
(* Claims about blueprint registration *)

Occurrences(seq, x) == Cardinality({i \in 1..Len(seq) : seq[i] = x})

\* C10: after any sequence of bootstrap calls, every blueprint name has been
\* generated and registered at most once, a name recorded in
\* CREATED_BLUEPRINTS is never generated again (its generator was called
\* exactly when it was recorded), and CREATED_BLUEPRINTS holds no name twice.
C10_BlueprintsCreatedOnce ==
    \A n \in BlueprintNames :
        /\ Occurrences(CREATED_BLUEPRINTS, n) <= 1
        /\ generator_calls[n] = Occurrences(CREATED_BLUEPRINTS, n)
        /\ registered[n] <= generator_calls[n]

\* a name was presented again after it was recorded, and was skipped
C10_Witness ==
    \E n \in BlueprintNames :
        /\ skipped[n] >= 2
        /\ registered[n] = 1
        /\ Len(CREATED_BLUEPRINTS) = 3

----------------------------------------------------------------------------
(* Claims about the api decorator *)

\* a request has been handled, with a response or with an error
ApiHandled == api_outcome # Pending

ApiResponded == ApiHandled /\ api_outcome.kind = "response"

\* the request's body is a JSON object sent with a JSON content type
IsJsonObjectRequest(request) ==
    /\ request.content_type.type = "str"
    /\ RequestIsJson(request.content_type.value)
    /\ JsonLoadsType(request.data) = "dict"

\* C2: every request with a method other than GET whose body is not a JSON
\* object sent with a JSON content type gets a 400-class response with the
\* envelope's status "error" and a reason, and the handler is not called
C2_NonGetRequiresJson ==
    (ApiHandled /\ api_request.method # "GET"
                /\ ~IsJsonObjectRequest(api_request))
    => /\ api_outcome.kind = "response"
       /\ api_outcome.status_code \in 400..499
       /\ api_outcome.json.status = "error"
       /\ "reason" \in DOMAIN api_outcome.json
       /\ api_calls = 0

\* C3: every GET request whose handler returns gets HTTP 200 with the
\* envelope {status: "ok", data: the handler's value} and no reason, whatever
\* its body and with or without a Content-Type header
C3_SuccessfulGet ==
    (ApiHandled /\ api_request.method = "GET" /\ api_func.kind = "return")
    => /\ api_outcome.kind = "response"
       /\ api_outcome.status_code = 200
       /\ api_outcome.json = [status |-> "ok", data |-> api_func.value]

\* the handler was called and raised
HandlerRaised == ApiHandled /\ api_calls = 1 /\ api_func.kind = "raise"

\* C4: when the handler raises, an ApiException gives {status: "error",
\* reason: its reason} with its status code; a KeyError, TypeError or
\* ValueError gives {status: "error", reason: ...} with HTTP 400; any other
\* error propagates unchanged and there is no response; and no error
\* envelope has a data field
C4_HandlerErrors ==
    /\ HandlerRaised =>
         LET e == api_func.error
         IN  IF IsSubclass(e.type, "ApiException")
             THEN /\ api_outcome.kind = "response"
                  /\ api_outcome.status_code = e.status_code
                  /\ api_outcome.json = [status |-> "error",
                                         reason |-> e.reason]
             ELSE IF \E c \in {"KeyError", "TypeError", "ValueError"} :
                         IsSubclass(e.type, c)
             THEN /\ api_outcome.kind = "response"
                  /\ api_outcome.status_code = 400
                  /\ DOMAIN api_outcome.json = {"status", "reason"}
                  /\ api_outcome.json.status = "error"
             ELSE api_outcome = [kind |-> "raise", error |-> e]
    /\ (ApiResponded /\ api_outcome.json.status = "error")
         => "data" \notin DOMAIN api_outcome.json

\* a POST with a JSON object reached the handler, which raised an
\* ApiException, and the response carries its reason and status code
C4_Witness ==
    /\ HandlerRaised
    /\ api_request.method = "POST"
    /\ api_func.error = ApiException("Not found", 404)
    /\ api_outcome.kind = "response"
    /\ api_outcome.status_code = 404
    /\ api_outcome.json.reason = "Not found"

----------------------------------------------------------------------------
(* Claims about load_user_from_request *)

Anonymous == [kind |-> "return", value |-> PyNone]

\* the bytes an Authorization value encodes, or the base64 error
HeaderBytes(authorization) ==
    B64Decode(ReplaceFirst(authorization, Chars("Basic "), <<>>))

\* the value is not valid base64, or is base64 of bytes that are not text
NotValidlyEncoded(authorization) ==
    \/ HeaderBytes(authorization).kind = "raise"
    \/ Utf8Decode(HeaderBytes(authorization).value, 1, <<>>).kind = "raise"

\* the text "id:secret" a validly encoded value presents
PresentedKey(authorization) ==
    Utf8Decode(HeaderBytes(authorization).value, 1, <<>>).value

\* the stored keys whose id the presented key names
NamedKeys(authorization, keys) ==
    {k \in keys :
        CodePoints(k.id) = SplitOnce(PresentedKey(authorization), Ord(":"))[1]}

\* the value names no stored key, or a key that it fails to verify against,
\* or a key that has expired
KeyRejected(authorization, keys) ==
    \/ NamedKeys(authorization, keys) = {}
    \/ \E k \in NamedKeys(authorization, keys) :
          \/ PresentedKey(authorization)
                # CodePoints(k.id) \o <<Ord(":")>> \o CodePoints(k.secret)
          \/ k.expired

\* C5: a lookup for a request with an Authorization header returns None, and
\* raises no error, when the value is not validly encoded (not base64, or
\* base64 of bytes that are not text), when the key id is unknown, when the
\* key fails verification and when the key has expired
C5_RejectedIsAnonymous ==
    [][(/\ auth_headers' # PyNone
        /\ \/ NotValidlyEncoded(auth_headers'.value)
           \/ KeyRejected(auth_headers'.value, api_keys))
       => auth_outcome' = Anonymous]_authVars

----------------------------------------------------------------------------
(* Claims about the background task runner *)

\* the function of task t raises an exception on every invocation
AlwaysRaises(t) == "return" \notin task_definitions[t].function

\* C1: the thread of a task whose function raises on every invocation never
\* terminates: every exception is caught and logged with the task's name,
\* the thread sleeps for the delay and invokes the function again, without
\* end, so the invocation counter grows (here up to MaxCount, where it stops
\* counting)
C1_RaisingTaskRunsForever ==
    \A t \in TaskNames :
        AlwaysRaises(t) =>
            /\ [](thread_pc[t] # "terminated")
            /\ [](error_log[t] = invocations[t])
            /\ []<>(thread_pc[t] = "sleep")
            /\ []<>(thread_pc[t] = "invoke")
            /\ <>(invocations[t] = MaxCount)

\* the stored keys that the presented credential verifies against
VerifiedKeys(headers, keys) ==
    IF headers = PyNone THEN {}
    ELSE IF NotValidlyEncoded(headers.value) THEN {}
    ELSE {k \in NamedKeys(headers.value, keys) :
             PresentedKey(headers.value)
                 = CodePoints(k.id) \o <<Ord(":")>> \o CodePoints(k.secret)}

\* C11: a lookup deletes a stored API key only when the record exists, the
\* presented credential verifies against it and it has expired; in every
\* other outcome (no header, undecodable header, unknown id, failed
\* verification, valid unexpired key) the stored keys are unchanged; and a
\* verified unexpired key returns the user that owns it
C11_DeletesOnlyVerifiedExpired ==
    [][/\ api_keys' \subseteq api_keys
       /\ \A k \in api_keys \ api_keys' :
             k \in VerifiedKeys(auth_headers', api_keys) /\ k.expired
       /\ (\A k \in VerifiedKeys(auth_headers', api_keys) : ~k.expired)
             => api_keys' = api_keys
       /\ \A k \in VerifiedKeys(auth_headers', api_keys) :
             ~k.expired =>
                 /\ auth_outcome'.kind = "return"
                 /\ auth_outcome'.value.type = "User"
                 /\ auth_outcome'.value.id = k.user_id]_authVars

\* the last lookup presented the credential of an expired key, which was
\* deleted, answered anonymously, and left the other stored key in place
C11_Witness ==
    /\ auth_outcome = Anonymous
    /\ \E k \in deleted_keys :
          /\ k.expired
          /\ VerifiedKeys(auth_headers, {k}) = {k}
          /\ \A j \in api_keys : j.id # k.id
    /\ api_keys # {}

=============================================================================
